---- MODULE Spec2Model ----
(***************************************************************************)
(* Quiz session handling of bot.py: the user_progress and quizzes tables   *)
(* of DatabaseManager and the callback handlers of ModernQuizBot that read *)
(* and write them (_handle_answer, _send_question, _complete_quiz,         *)
(* _start_quiz and the retake_ branch of _callback_handler).               *)
(*                                                                         *)
(* Every handler is a coroutine: each database call and each bot API call  *)
(* is an await, so handlers of different updates interleave at those       *)
(* points.  A task slot holds one running handler, its arguments, its      *)
(* local QuizProgress object and its position.  Each database call is one  *)
(* atomic step (one sqlite statement and commit).                          *)
(***************************************************************************)
EXTENDS Integers, Sequences, FiniteSets, TLC

\* ------------------------------------------------------------ bounds
NumTasks == 2        \* handlers in flight at once
MaxQuestions == 2    \* longest question list of the catalog
LongQuestions == 4   \* the question list of the long serial run
MaxTotal == 10       \* longest question list of the completion reports
MaxPrompts == 2      \* question messages shown beyond which no new update is taken
MaxRows == 2         \* rows of chapters, and rows of quizzes per chapter, the catalog is followed to
NumUsers == 3        \* users of the leaderboards
NumChapters == 2     \* chapters of the leaderboards
MaxDay == 10         \* the day the clock is followed to
NumOptions == 2      \* options per question

Tasks == 1..NumTasks
Users == {1}
Chapters == {1}
Keys == Users \X Chapters
Options == 0..(NumOptions - 1)

VARIABLES
    quizzes,        \* quizzes table: chapter_id -> the rows' question lists, oldest first
    user_progress,  \* user_progress table: (user_id, chapter_id) -> << >> or <<row>>,
                    \* over the keys the updates of the run name
    task,           \* task slot -> the handler running in it
    serial,         \* scheduling: TRUE when updates are handled one at a time
    hist,           \* observer: the last two handler calls of a serial run
    chat,           \* the question messages the chat shows, when they are followed
    subjects,       \* subjects table: the names, in id order
    chapters,       \* chapters table: the rows, in id order
    users,          \* users table: the user_ids with a row
    now,            \* the clock, in days
    user_states,    \* ModernQuizBot.user_states: user_id -> conversation state
    profile_confirmed   \* users table: the user_ids whose row has profile_confirmed

vars == <<quizzes, user_progress, task, serial, hist, chat, subjects, chapters, users, now,
          user_states, profile_confirmed>>

\* What no quiz handler writes.
tables == <<subjects, chapters, users, now, user_states, profile_confirmed>>

\* ------------------------------------------------------------ data model
\* Question: the fields the handlers compute with.
Question(correct, nopts) == [correct |-> correct, nopts |-> nopts]

\* QuizProgress(user_id, chapter_id, current_index=0, score=0, answers=[]),
\* last_message_id None (0: message ids start at 1, and None and 0 are both falsy).
QuizProgress ==
    [current_index |-> 0, score |-> 0, answers |-> << >>,
     last_message_id |-> 0, completed |-> FALSE]

\* A question list of n questions, as an admin may have published it.
QuizOfLen(n) == [i \in 1..n |-> Question(i % NumOptions, NumOptions)]

\* A faulty variant: a reader that is handed the row without its last question.
get_quiz_partial(c) ==
    IF Len(quizzes[c][1]) = 0 THEN << >>
    ELSE SubSeq(quizzes[c][1], 1, Len(quizzes[c][1]) - 1)

\* get_quiz: SELECT questions FROM quizzes WHERE chapter_id = ?, fetchone():
\* the first row of the chapter; no row is None.
HasQuiz(c) == Len(quizzes[c]) > 0
get_quiz(c) == quizzes[c][1]

\* A column without a value; timestamps and message ids start at 1.
NULL == 0

\* json.dumps of a list of ints, as the sequence of its tokens:
\* "[", the numerals separated by ", ", "]".
json_dumps(list) ==
    <<"[">> \o [i \in 1..(IF Len(list) = 0 THEN 0 ELSE 2 * Len(list) - 1) |->
                  IF i % 2 = 1 THEN ToString(list[(i + 1) \div 2]) ELSE ", "]
           \o <<"]">>

\* json.loads of such a text: the numerals between the brackets, read as ints
\* (an answer is the index of a button, one digit).
json_loads(text) ==
    LET inner == SubSeq(text, 2, Len(text) - 1) IN
    [i \in 1..((Len(inner) + 1) \div 2) |->
        CHOOSE n \in 0..9 : ToString(n) = inner[2 * i - 1]]

\* A faulty variant: last_message_id is not read back.
FromRowNoMessage(row) ==
    [current_index |-> row.current_index, score |-> row.score,
     answers |-> json_loads(row.answers), last_message_id |-> NULL,
     completed |-> row.completed # 0]

\* The QuizProgress get_progress builds of a row: answers = json.loads(row[2]),
\* completed = bool(row[3]).
FromRow(row) ==
    [current_index |-> row.current_index, score |-> row.score,
     answers |-> json_loads(row.answers), last_message_id |-> row.last_message_id,
     completed |-> row.completed # 0]

\* The row save_progress writes: the seven columns of its INSERT OR REPLACE,
\* answers as json.dumps, completed as sqlite stores a bool; completed_at is not
\* among them and so is NULL in every row written.
ToRow(progress) ==
    [current_index |-> progress.current_index, score |-> progress.score,
     answers |-> json_dumps(progress.answers),
     completed |-> IF progress.completed THEN 1 ELSE 0,
     last_message_id |-> progress.last_message_id, completed_at |-> NULL]

\* get_progress: the row, or the default QuizProgress when there is none.
get_progress(u, c) ==
    IF Len(user_progress[<<u, c>>]) > 0
    THEN FromRow(user_progress[<<u, c>>][1])
    ELSE QuizProgress

\* A faulty variant: the row replaces every row of the user.
save_progress_by_user(u, c, progress) ==
    user_progress' = [k \in DOMAIN user_progress |->
                         IF k[1] = u THEN <<ToRow(progress)>> ELSE user_progress[k]]

\* save_progress: INSERT OR REPLACE of the full row under (user_id, chapter_id).
save_progress(u, c, progress) ==
    user_progress' = [user_progress EXCEPT ![<<u, c>>] = <<ToRow(progress)>>]

\* msg.message_id of a message the chat has just sent: an id no row, no handler
\* and no message shown refers to (the least one, ids being opaque to the
\* handlers).
MsgInUse ==
    {user_progress[k][1].last_message_id : k \in {x \in DOMAIN user_progress : Len(user_progress[x]) > 0}}
        \cup {task[t].progress.last_message_id : t \in Tasks}
        \cup {p.id : p \in chat.prompts}
send_message == CHOOSE m \in 1..(Cardinality(MsgInUse) + 1) : m \notin MsgInUse

\* ------------------------------------------------------------ the chat
\* _cleanup_previous_message: delete_message, its errors swallowed.
delete_message(prompts, message_id) == {p \in prompts : p.id # message_id}

\* The question messages of question qi of (u, c) that the chat shows.
Shown(u, c, qi) == {p \in chat.prompts : p.user = u /\ p.chapter = c /\ p.qi = qi}

\* _callback_handler deletes the message of the tapped button before anything
\* else: one of the messages shown, or nothing when the tap comes from a
\* message already deleted.
TappedMessages(u, c, qi) ==
    IF Shown(u, c, qi) = {} THEN {{}} ELSE {{p} : p \in Shown(u, c, qi)}

\* ------------------------------------------------------------ tasks
\* A slot: the position of the handler, its arguments still in use, and its local
\* QuizProgress object.
Idle == [pc |-> "idle", user |-> 0, chapter |-> 0, next |-> 0, progress |-> QuizProgress]

Running(pc, u, c, next, progress) ==
    [pc |-> pc, user |-> u, chapter |-> c, next |-> next, progress |-> progress]

Free(t) == task[t].pc = "idle"

\* Slots are interchangeable: an arriving update takes the first free one.
FirstFree(t) == Free(t) /\ \A t2 \in Tasks : t2 < t => ~Free(t2)

NoneRunning == \A t \in Tasks : Free(t)

\* The polling loop hands an update to its handler: at once when handlers run
\* concurrently, after the running handler returned when they run one at a time
\* (and, where the chat is followed, while it shows fewer than MaxPrompts
\* question messages).
Dispatch(t) ==
    /\ FirstFree(t)
    /\ serial => NoneRunning
    /\ Cardinality(chat.prompts) < MaxPrompts

Goto(t, s) == task' = [task EXCEPT ![t] = s]

\* ------------------------------------------------------------ observer
\* The history of a serial run: each call with the day it came in and the row
\* before it, and, once it returned, its outcome and the row after it.
LastTwo(h) == IF Len(h) > 2 THEN Tail(h) ELSE h

RowOf(r) == IF Len(r) > 0 THEN FromRow(r[1]) ELSE QuizProgress

\* How the record of a key came about, as far as the calls seen tell:
\*   "fresh"    from no record, by accepted answers each for the next question,
\*   "retaken"  the same, from the reset of a retake of a completed record,
\*   "broken"   anything else (an answer out of order, a call ended by an error).
\* Rejected answers and _start_quiz calls leave it as it is.
PrevRun ==
    IF Len(hist) = 0 THEN [k \in DOMAIN user_progress |-> "fresh"] ELSE hist[Len(hist)].run

RunAfter(call, outcome, run) ==
    IF call.op = "retake"
    THEN IF outcome = "question" /\ RowOf(call.pre).completed THEN "retaken" ELSE "broken"
    ELSE IF call.op = "handle_answer" /\ call.accepted
         THEN IF outcome \in {"question", "completed"}
                 /\ call.qi = Len(RowOf(call.pre).answers)
              THEN run ELSE "broken"
         ELSE run

NoReport == [tenths |-> 0, band |-> "none"]

Called(op, u, c, qi, o) ==
    [op |-> op, user |-> u, chapter |-> c, qi |-> qi, opt |-> o,
     accepted |-> FALSE, outcome |-> "running",
     pre |-> user_progress[<<u, c>>], post |-> user_progress[<<u, c>>],
     run |-> PrevRun, report |-> NoReport, at |-> now]

Closed(call, outcome) ==
    [call EXCEPT !.outcome = outcome, !.post = user_progress'[<<call.user, call.chapter>>],
                 !.run = [@ EXCEPT ![<<call.user, call.chapter>>] = RunAfter(call, outcome, @)]]

HistCall(call) == hist' = IF serial THEN LastTwo(Append(hist, call)) ELSE hist

HistReturn(outcome) ==
    hist' = IF serial THEN [hist EXCEPT ![Len(hist)] = Closed(@, outcome)] ELSE hist

Return(t, outcome) == Goto(t, Idle) /\ HistReturn(outcome)

\* The return of _complete_quiz, with the report of its completion message.
ReturnReport(t, report) ==
    /\ Goto(t, Idle)
    /\ hist' = IF serial
               THEN [hist EXCEPT ![Len(hist)] = [Closed(@, "completed") EXCEPT !.report = report]]
               ELSE hist

\* The chat not followed, the tables of the catalog and of the users empty.
NoChat == [on |-> FALSE, prompts |-> {}]

NoTables ==
    /\ chat = NoChat
    /\ subjects = << >>
    /\ chapters = << >>
    /\ users = {}
    /\ now = 1
    /\ user_states = << >>
    /\ profile_confirmed = {}

Init ==
    /\ quizzes \in [Chapters -> {<< >>} \cup {<<QuizOfLen(n)>> : n \in 0..MaxQuestions}]
    /\ user_progress = [k \in Keys |-> << >>]
    /\ task = [t \in Tasks |-> Idle]
    /\ serial = FALSE
    /\ hist = << >>
    /\ NoTables

SeqInit ==
    /\ quizzes \in [Chapters -> {<< >>} \cup {<<QuizOfLen(n)>> : n \in 0..MaxQuestions}]
    /\ user_progress = [k \in Keys |-> << >>]
    /\ task = [t \in Tasks |-> Idle]
    /\ serial = TRUE
    /\ hist = << >>
    /\ NoTables

\* A serial run on one long question list.
LongSeqInit ==
    /\ quizzes = [c \in Chapters |-> <<QuizOfLen(LongQuestions)>>]
    /\ user_progress = [k \in Keys |-> << >>]
    /\ task = [t \in Tasks |-> Idle]
    /\ serial = TRUE
    /\ hist = << >>
    /\ NoTables

\* ------------------------------------------------------------ _handle_answer
\* A faulty variant: the test of the answer dropped, every tap is taken.
AnswerAlwaysTaken(progress, qi) == TRUE

\* if len(progress.answers) <= question_index
AnswerIsNext(progress, qi) == Len(progress.answers) <= qi

\* A faulty variant: every answer scores.
RecordAnswerScoresAll(progress, question, o) ==
    [progress EXCEPT !.answers = Append(@, o), !.score = @ + 1]

\* A faulty variant: a right answer scores two.
RecordAnswerBonus(progress, question, o) ==
    [progress EXCEPT !.answers = Append(@, o),
                     !.score = IF o = question.correct THEN @ + 2 ELSE @]

\* progress.answers.append(answer_idx); if answer_idx == question.correct: score += 1
RecordAnswer(progress, question, o) ==
    [progress EXCEPT !.answers = Append(@, o),
                     !.score = IF o = question.correct THEN @ + 1 ELSE @]

\* quiz = get_quiz(chapter_id); question = quiz[question_index]: a TypeError when
\* quiz is None, an IndexError when question_index is past the list.
QuestionRaises(c, qi) == ~HasQuiz(c) \/ qi >= Len(get_quiz(c))

\* A faulty variant: the else branch also saves the row, with last_message_id cleared.
AlreadyAnsweredSaves(t, u, c) ==
    /\ Goto(t, Idle)
    /\ save_progress(u, c, [get_progress(u, c) EXCEPT !.last_message_id = 0])

\* A faulty variant: the row is written before the question is looked up.
AnswerErrorSaves(t, u, c) ==
    Goto(t, Idle) /\ save_progress(u, c, get_progress(u, c))

\* except Exception: answer_callback_query(call_id, "Error!"); nothing is saved.
AnswerError(t, u, c) == Goto(t, Idle) /\ UNCHANGED user_progress

\* The else branch: answer_callback_query("Already answered!") and nothing else.
AlreadyAnswered(t, u, c) ==
    /\ Goto(t, Idle)
    /\ UNCHANGED user_progress

\* The callback answer_<c>_<qi>_<o>: get_quiz, quiz[question_index], get_progress
\* and the test of the answer.  An exception ends in the except branch, which
\* only answers "Error!".
handle_answer(t, u, c, qi, o) ==
    /\ Dispatch(t)
    /\ \E m \in TappedMessages(u, c, qi) : chat' = [chat EXCEPT !.prompts = @ \ m]
    /\ UNCHANGED <<tables, quizzes, serial>>
    /\ IF QuestionRaises(c, qi)
       THEN /\ AnswerError(t, u, c)
            /\ HistCall(Closed(Called("handle_answer", u, c, qi, o), "error"))
       ELSE LET progress == get_progress(u, c)
                question == get_quiz(c)[qi + 1]
            IN IF AnswerIsNext(progress, qi)
               THEN /\ Goto(t, Running("ha_save", u, c, qi + 1,
                                       RecordAnswer(progress, question, o)))
                    /\ UNCHANGED user_progress
                    /\ HistCall([Called("handle_answer", u, c, qi, o) EXCEPT !.accepted = TRUE])
               ELSE /\ AlreadyAnswered(t, u, c)
                    /\ HistCall(Closed(Called("handle_answer", u, c, qi, o), "stale"))

\* await self.db.save_progress(user_id, chapter_id, progress)
HA_Save(t) ==
    LET s == task[t] IN
    /\ s.pc = "ha_save"
    /\ save_progress(s.user, s.chapter, s.progress)
    /\ Goto(t, Running("ha_ack", s.user, s.chapter, s.next, QuizProgress))
    /\ UNCHANGED <<tables, chat, quizzes, serial, hist>>

\* answer_callback_query raises (the chat layer fails): the except branch ends the
\* handler before _send_question is called.
HA_AckRaises(t) ==
    /\ task[t].pc = "ha_ack"
    /\ UNCHANGED <<tables, chat, quizzes, user_progress, serial>>
    /\ Return(t, "error")

\* ------------------------------------------------------------ _send_question
\* The reads of _send_question(question_index = next).  Past the last question
\* it calls _complete_quiz, which reads the row again and sets completed.
SQ_Read(t) ==
    LET s == task[t]
        progress == get_progress(s.user, s.chapter)
    IN
    /\ s.pc \in {"ha_ack", "send_question"}
    /\ HasQuiz(s.chapter)
    /\ IF s.next >= Len(get_quiz(s.chapter))
       THEN Goto(t, Running("cq_save", s.user, s.chapter, s.next,
                            [progress EXCEPT !.completed = TRUE]))
       ELSE Goto(t, Running("sq_save", s.user, s.chapter, s.next, progress))
    /\ UNCHANGED <<tables, chat, quizzes, user_progress, serial, hist>>

\* _cleanup_previous_message(chat_id, progress.last_message_id);
\* msg = send_message(...); progress.current_index = question_index;
\* progress.last_message_id = msg.message_id; save_progress
SQ_Save(t) ==
    LET s == task[t] IN
    /\ s.pc = "sq_save"
    /\ save_progress(s.user, s.chapter,
           [s.progress EXCEPT !.current_index = s.next, !.last_message_id = send_message])
    /\ chat' = IF chat.on
               THEN [chat EXCEPT !.prompts =
                        delete_message(@, s.progress.last_message_id)
                            \cup {[id |-> send_message, user |-> s.user,
                                   chapter |-> s.chapter, qi |-> s.next]}]
               ELSE chat
    /\ UNCHANGED <<tables, quizzes, serial>>
    /\ Return(t, "question")

\* ------------------------------------------------------------ _complete_quiz
\* A faulty variant: the percentage is cut after its first decimal.
PercentTruncated(score, total) == (1000 * score) \div total

\* f"{percentage:.1f}" of percentage = (score / total) * 100, in tenths of a
\* percent: the nearest tenth, a tie going to the even one. (A tie needs a total
\* that is a multiple of 16; the float of the code and this quotient give the
\* same digits for every total below 80.)
PercentTenths(score, total) ==
    LET q == (1000 * score) \div total
        r == (1000 * score) % total
    IN IF 2 * r > total \/ (2 * r = total /\ q % 2 = 1) THEN q + 1 ELSE q

\* if percentage >= 90 ... elif >= 70 ... elif >= 50 ... else, on the unrounded
\* percentage: score / total * 100 >= b exactly when 100 * score >= b * total.
Band(score, total) ==
    IF 100 * score >= 90 * total THEN "outstanding"
    ELSE IF 100 * score >= 70 * total THEN "great"
    ELSE IF 100 * score >= 50 * total THEN "good"
    ELSE "keep_learning"

completion_report(score, total) ==
    [tenths |-> PercentTenths(score, total), band |-> Band(score, total)]

\* progress.completed = True; save_progress; then the completion message, whose
\* percentage divides by len(quiz): ZeroDivisionError for an empty list, after
\* the save.
CQ_Save(t) ==
    LET s == task[t]
        total == Len(get_quiz(s.chapter))
    IN
    /\ s.pc = "cq_save"
    /\ save_progress(s.user, s.chapter, s.progress)
    /\ UNCHANGED <<tables, chat, quizzes, serial>>
    /\ IF total = 0
       THEN Return(t, "zero_division")
       ELSE ReturnReport(t, completion_report(s.progress.score, total))

\* ------------------------------------------------------------ _start_quiz
\* A faulty variant: "if quiz is None", an empty list goes on to _send_question.
QuizIsNone(c) == ~HasQuiz(c)

\* "if not quiz": no row, or an empty list.
QuizNotAvailable(c) == ~HasQuiz(c) \/ Len(get_quiz(c)) = 0

\* A faulty variant: the completed flag is never looked at.
NeverCompleted(progress) == FALSE

\* if progress.completed: the retake offer
IsCompleted(progress) == progress.completed

\* The callback chapter_<c>: get_quiz, get_progress, the retake offer for a
\* completed row, else _send_question(chat_id, user_id, chapter_id, 0).
start_quiz(t, u, c) ==
    /\ Dispatch(t)
    /\ UNCHANGED <<tables, chat, quizzes, user_progress, serial>>
    /\ IF QuizNotAvailable(c)
       THEN Goto(t, Idle) /\ HistCall(Closed(Called("start_quiz", u, c, 0, 0), "unavailable"))
       ELSE IF IsCompleted(get_progress(u, c))
            THEN Goto(t, Idle)
                 /\ HistCall(Closed(Called("start_quiz", u, c, 0, 0), "offer_retake"))
            ELSE Goto(t, Running("send_question", u, c, 0, QuizProgress))
                 /\ HistCall(Called("start_quiz", u, c, 0, 0))

\* _start_quiz as the retake_ branch calls it, after its save.
SZ_Read(t) ==
    LET s == task[t] IN
    /\ s.pc = "start_quiz"
    /\ UNCHANGED <<tables, chat, quizzes, user_progress, serial>>
    /\ IF QuizNotAvailable(s.chapter)
       THEN Return(t, "unavailable")
       ELSE IF IsCompleted(get_progress(s.user, s.chapter))
            THEN Return(t, "offer_retake")
            ELSE Goto(t, Running("send_question", s.user, s.chapter, 0, QuizProgress))
                 /\ UNCHANGED hist

\* ------------------------------------------------------------ retake_
\* A faulty variant: the score is carried into the next run.
ResetKeepsScore(progress) ==
    [progress EXCEPT !.current_index = 0, !.answers = << >>, !.completed = FALSE]

\* A faulty variant: the answers are carried into the next run.
ResetKeepsAnswers(progress) ==
    [progress EXCEPT !.current_index = 0, !.score = 0, !.completed = FALSE]

\* current_index = 0; score = 0; answers = []; completed = False
\* (last_message_id stays)
ResetProgress(progress) ==
    [progress EXCEPT !.current_index = 0, !.score = 0,
                     !.answers = << >>, !.completed = FALSE]

\* The callback retake_<c>: progress = get_progress, reset, save_progress,
\* _start_quiz.
retake(t, u, c) ==
    LET progress == get_progress(u, c) IN
    /\ Dispatch(t)
    /\ Goto(t, Running("rt_save", u, c, 0, ResetProgress(progress)))
    /\ UNCHANGED <<tables, chat, quizzes, user_progress, serial>>
    /\ HistCall(Called("retake", u, c, 0, 0))

\* save_progress, then _start_quiz
RT_Save(t) ==
    LET s == task[t] IN
    /\ s.pc = "rt_save"
    /\ save_progress(s.user, s.chapter, s.progress)
    /\ Goto(t, Running("start_quiz", s.user, s.chapter, 0, QuizProgress))
    /\ UNCHANGED <<tables, chat, quizzes, serial, hist>>

\* ------------------------------------------------------------ specifications
\* The question_index of a callback: an index of the chapter's list, or the one past it.
QuestionIndexes(c) == 0..(IF HasQuiz(c) THEN Len(get_quiz(c)) ELSE 0)

Next ==
    \E t \in Tasks :
        \/ \E k \in DOMAIN user_progress : \E qi \in QuestionIndexes(k[2]), o \in Options :
               handle_answer(t, k[1], k[2], qi, o)
        \/ \E k \in DOMAIN user_progress : start_quiz(t, k[1], k[2])
        \/ \E k \in DOMAIN user_progress : retake(t, k[1], k[2])
        \/ HA_Save(t)
        \/ HA_AckRaises(t)
        \/ SQ_Read(t)
        \/ SQ_Save(t)
        \/ CQ_Save(t)
        \/ SZ_Read(t)
        \/ RT_Save(t)

\* Handlers of concurrent updates interleave at their awaits.
Spec == Init /\ [][Next]_vars

\* One update at a time, each call observed in hist.
SeqSpec == SeqInit /\ [][Next]_vars

LongSeqSpec == LongSeqInit /\ [][Next]_vars

\* Concurrent handlers on one question list, the question messages of the chat
\* followed.
ChatInit ==
    /\ quizzes = [c \in Chapters |-> <<QuizOfLen(MaxQuestions)>>]
    /\ user_progress = [k \in Keys |-> << >>]
    /\ task = [t \in Tasks |-> Idle]
    /\ serial = FALSE
    /\ hist = << >>
    /\ chat = [on |-> TRUE, prompts |-> {}]
    /\ subjects = << >>
    /\ chapters = << >>
    /\ users = {}
    /\ now = 1
    /\ user_states = << >>
    /\ profile_confirmed = {}

ChatSpec == ChatInit /\ [][Next]_vars

\* Concurrent handlers of one user on two chapters, the catalog holding one
\* subject with the two chapters and a question list for each.
FrameKeys == {<<1, 1>>, <<1, 2>>}

FrameInit ==
    /\ quizzes = [c \in {k[2] : k \in FrameKeys} |-> <<QuizOfLen(1)>>]
    /\ user_progress = [k \in FrameKeys |-> << >>]
    /\ task = [t \in Tasks |-> Idle]
    /\ serial = FALSE
    /\ hist = << >>
    /\ chat = NoChat
    /\ subjects = <<"s1">>
    /\ chapters = <<[subject_id |-> 1, name |-> "c1"], [subject_id |-> 1, name |-> "c2"]>>
    /\ users = {k[1] : k \in FrameKeys}
    /\ now = 1
    /\ user_states = << >>
    /\ profile_confirmed = {}

FrameSpec == FrameInit /\ [][Next]_vars

\* _complete_quiz on every score of every total up to MaxTotal: the handler of
\* the last answer of a chapter of total questions, started and answered in
\* order with the first score answers right, stands before the save of
\* _complete_quiz.
ReportAnswers(score, total) ==
    [i \in 1..total |-> IF i <= score THEN QuizOfLen(total)[i].correct
                                      ELSE (QuizOfLen(total)[i].correct + 1) % NumOptions]

ReportRow(score, total, answered) ==
    [current_index |-> total - 1, score |-> score,
     answers |-> SubSeq(ReportAnswers(score, total), 1, answered),
     last_message_id |-> 2 - (total % 2), completed |-> FALSE]

BeforeCompletion(score, total) ==
        LET before == ReportRow(IF score = total THEN score - 1 ELSE score, total, total - 1)
            row == ReportRow(score, total, total)
        IN /\ quizzes = [c \in Chapters |-> <<QuizOfLen(total)>>]
           /\ user_progress = [k \in Keys |-> <<ToRow(row)>>]
           /\ task = [t \in Tasks |->
                         IF t = 1
                         THEN Running("cq_save", 1, 1, total, [row EXCEPT !.completed = TRUE])
                         ELSE Idle]
           /\ serial = TRUE
           /\ hist = <<[op |-> "handle_answer", user |-> 1, chapter |-> 1,
                        qi |-> total - 1, opt |-> row.answers[total],
                        accepted |-> TRUE, outcome |-> "running",
                        pre |-> <<ToRow(before)>>, post |-> <<ToRow(before)>>,
                        run |-> [k \in Keys |-> "fresh"], report |-> NoReport,
                        at |-> 1]>>

ReportInit ==
    \E total \in 1..MaxTotal : \E score \in 0..total :
        BeforeCompletion(score, total) /\ NoTables

ReportNext == \E t \in Tasks : CQ_Save(t)

ReportSpec == ReportInit /\ [][ReportNext]_vars

\* ------------------------------------------------------------ the catalog
\* subjects.name is UNIQUE; chapters has no constraint on (subject_id, name) and
\* quizzes none on chapter_id; ids are AUTOINCREMENT, the position in the table.
SubjectNames == {"s1"}
ChapterNames == {"c1", "c2"}
ChapterIds == 1..MaxRows

\* SELECT id FROM subjects WHERE name = ?, fetchone(); 0 when there is no row.
SubjectId(name) ==
    IF \E i \in 1..Len(subjects) : subjects[i] = name
    THEN CHOOSE i \in 1..Len(subjects) : subjects[i] = name
    ELSE 0

\* SELECT id FROM chapters WHERE subject_id = ? AND name = ?, fetchone(): the
\* first such row; 0 when there is none.
ChapterRows(subject_id, name) ==
    {i \in 1..Len(chapters) : chapters[i] = [subject_id |-> subject_id, name |-> name]}
ChapterId(subject_id, name) ==
    IF ChapterRows(subject_id, name) = {} THEN 0
    ELSE CHOOSE i \in ChapterRows(subject_id, name) :
             \A j \in ChapterRows(subject_id, name) : i <= j

\* The three tables at once.
Catalog == [subjects |-> subjects, chapters |-> chapters, quizzes |-> quizzes]

\* Observer of a catalog call: its arguments, its result, the tables before it.
CatalogCall(op, subject, chapter, data, outcome) ==
    hist' = <<[op |-> op, subject |-> subject, chapter |-> chapter, data |-> data,
               outcome |-> outcome, pre |-> Catalog]>>

\* No session runs while the catalog is edited.
CatalogFrame ==
    UNCHANGED <<user_progress, task, serial, chat, users, now, user_states, profile_confirmed>>

\* add_subject: INSERT OR IGNORE INTO subjects (name).
add_subject(name) ==
    /\ subjects' = IF SubjectId(name) # 0 THEN subjects ELSE Append(subjects, name)
    /\ UNCHANGED <<chapters, quizzes>>
    /\ CatalogFrame
    /\ CatalogCall("add_subject", name, "", << >>, "done")

\* The chapters table after add_chapter: with the subject's row found,
\* INSERT OR IGNORE INTO chapters (subject_id, name), which no constraint
\* ever ignores.
add_chapter_rows(subject_name, chapter_name) ==
    IF SubjectId(subject_name) # 0
    THEN Append(chapters, [subject_id |-> SubjectId(subject_name), name |-> chapter_name])
    ELSE chapters

add_chapter(subject_name, chapter_name) ==
    /\ Len(chapters) < MaxRows
    /\ chapters' = add_chapter_rows(subject_name, chapter_name)
    /\ UNCHANGED <<subjects, quizzes>>
    /\ CatalogFrame
    /\ CatalogCall("add_chapter", subject_name, chapter_name, << >>, "done")

\* An entry of an uploaded file: its question text, the length of its options
\* list, its correct index, and whether it has all four fields.
QuizEntry(question, nopts, correct, complete) ==
    [question |-> question, nopts |-> nopts, correct |-> correct, complete |-> complete]

\* The entries of the uploads: one well formed, and one with each defect (an
\* empty question text, a single option, a correct index equal to the number of
\* options, a missing field).
QuizEntries ==
    {QuizEntry("q", NumOptions, NumOptions - 1, TRUE),
     QuizEntry("", NumOptions, NumOptions - 1, TRUE),
     QuizEntry("q", 1, 0, TRUE),
     QuizEntry("q", NumOptions, NumOptions, TRUE),
     QuizEntry("q", NumOptions, NumOptions - 1, FALSE)}

\* The uploaded files: the lists of up to MaxQuestions entries.
Uploads == UNION {[1..n -> QuizEntries] : n \in 0..MaxQuestions}

\* validate_quiz_data of a list: every entry has the four fields, an options
\* list of at least two, and 0 <= correct < len(options).
validate_quiz_data(quiz_data) ==
    \A i \in 1..Len(quiz_data) :
        /\ quiz_data[i].complete
        /\ quiz_data[i].nopts >= 2
        /\ 0 <= quiz_data[i].correct /\ quiz_data[i].correct < quiz_data[i].nopts

\* questions = [Question(**q) for q in quiz_data]
Questions(quiz_data) ==
    [i \in 1..Len(quiz_data) |-> Question(quiz_data[i].correct, quiz_data[i].nopts)]

\* save_quiz finds its chapter: the subject's row and the chapter's row exist.
save_quiz_found(subject_name, chapter_name) ==
    /\ SubjectId(subject_name) # 0
    /\ ChapterId(SubjectId(subject_name), chapter_name) # 0

\* The quizzes table after save_quiz has found its chapter:
\* INSERT OR REPLACE INTO quizzes (chapter_id, questions), a new row each time.
save_quiz(subject_name, chapter_name, questions) ==
    [quizzes EXCEPT ![ChapterId(SubjectId(subject_name), chapter_name)] =
                        Append(@, questions)]

\* _document_handler of an admin who has named the subject: the file's list is
\* validated, then saved under the chapter named by the file.
document_handler(subject_name, chapter_name, quiz_data) ==
    /\ IF ~validate_quiz_data(quiz_data)
       THEN /\ UNCHANGED quizzes
            /\ CatalogCall("document_handler", subject_name, chapter_name, quiz_data,
                           "invalid")
       ELSE IF ~save_quiz_found(subject_name, chapter_name)
       THEN /\ UNCHANGED quizzes
            /\ CatalogCall("document_handler", subject_name, chapter_name, quiz_data,
                           "failed")
       ELSE /\ Len(quizzes[ChapterId(SubjectId(subject_name), chapter_name)]) < MaxRows
            /\ quizzes' = save_quiz(subject_name, chapter_name, Questions(quiz_data))
            /\ CatalogCall("document_handler", subject_name, chapter_name, quiz_data,
                           "uploaded")
    /\ UNCHANGED <<subjects, chapters>>
    /\ CatalogFrame

CatalogInit ==
    /\ quizzes = [c \in ChapterIds |-> << >>]
    /\ user_progress = [k \in Keys |-> << >>]
    /\ task = [t \in Tasks |-> Idle]
    /\ serial = TRUE
    /\ hist = << >>
    /\ NoTables

CatalogNext ==
    \/ \E name \in SubjectNames : add_subject(name)
    \/ \E s \in SubjectNames, c \in ChapterNames : add_chapter(s, c)
    \/ \E s \in SubjectNames, c \in ChapterNames : \E quiz_data \in Uploads :
           document_handler(s, c, quiz_data)

\* The admin's calls, one at a time.
CatalogSpec == CatalogInit /\ [][CatalogNext]_vars

\* ------------------------------------------------------------ scores and leaderboards
\* timedelta(days=7)
WeekDays == 7

\* The limits _complete_quiz and the leaderboard menu ask for.
Limits == {3, 10}

\* The rows of user_progress that have a value, by key.
StoredKeys == {k \in DOMAIN user_progress : Len(user_progress[k]) > 0}

\* SUM(score) over a set of rows.
RECURSIVE SumScore(_)
SumScore(keys) ==
    IF keys = {} THEN 0
    ELSE LET k == CHOOSE x \in keys : TRUE
         IN user_progress[k][1].score + SumScore(keys \ {k})

\* A faulty variant: only the completed rows of the user.
CompletedRowsOf(u) == {k \in StoredKeys : k[1] = u /\ user_progress[k][1].completed # 0}

\* WHERE user_id = ?
RowsOf(u) == {k \in StoredKeys : k[1] = u}

\* get_user_total_score: SELECT SUM(score) ... WHERE user_id = ?, which is NULL
\* over no row; "row[0] if row[0] else 0".
get_user_total_score(u) ==
    LET sum == IF RowsOf(u) = {} THEN NULL ELSE SumScore(RowsOf(u))
    IN IF sum # 0 THEN sum ELSE 0

\* JOIN users u ON u.user_id = up.user_id: the rows of users that have a users row.
Joined == {k \in StoredKeys : k[1] \in users}

\* WHERE up.completed_at >= week_ago: never true of a NULL completed_at.
InWindow(row, week_ago) == row.completed_at # NULL /\ row.completed_at >= week_ago

\* GROUP BY u.user_id with SUM(up.score), ORDER BY total_score in the given
\* direction, rank = idx + 1: every order of the groups the ORDER BY allows (rows
\* of equal total come in any order).
Ranked(keys, f) ==
    [i \in DOMAIN f |->
        [user |-> f[i], total_score |-> SumScore({k \in keys : k[1] = f[i]}), rank |-> i]]

\* A faulty variant: the groups in any order.
BoardsUnordered(keys, descending) ==
    LET groups == {k[1] : k \in keys}
        orders == {f \in [1..Cardinality(groups) -> groups] :
                       \A i, j \in DOMAIN f : i # j => f[i] # f[j]}
    IN {Ranked(keys, f) : f \in orders}

Boards(keys, descending) ==
    LET groups == {k[1] : k \in keys}
        orders == {f \in [1..Cardinality(groups) -> groups] :
                       \A i, j \in DOMAIN f : i # j => f[i] # f[j]}
        boards == {Ranked(keys, f) : f \in orders}
    IN {b \in boards :
           \A i, j \in DOMAIN b :
               i < j => IF descending THEN b[i].total_score >= b[j].total_score
                                      ELSE b[i].total_score <= b[j].total_score}

\* LIMIT ?
Limit(board, limit) == SubSeq(board, 1, IF Len(board) < limit THEN Len(board) ELSE limit)

\* get_top_scorers_weekly: the rows completed since a week ago, totals descending.
get_top_scorers_weekly(limit) ==
    {Limit(b, limit) :
        b \in Boards({k \in Joined : InWindow(user_progress[k][1], now - WeekDays)}, TRUE)}

\* get_all_scores: every row, ORDER BY total_score ASC.
get_all_scores == Boards(Joined, FALSE)

\* Observer of a query: its arguments, the day, its result.
Query(op, u, limit, result) ==
    [op |-> op, user |-> u, limit |-> limit, at |-> now, result |-> result]

\* The observer keeps the handler calls it has seen and the last query.
IsHandlerCall(h) == h.op \in {"handle_answer", "start_quiz", "retake"}
HistQuery(query) == hist' = Append(SelectSeq(hist, IsHandlerCall), query)

QueryFrame == UNCHANGED <<quizzes, user_progress, task, serial, chat, tables>>

\* total_score = await self.db.get_user_total_score(user_id)
total_score_query(u) ==
    /\ serial => NoneRunning
    /\ HistQuery(Query("get_user_total_score", u, 0, get_user_total_score(u)))
    /\ QueryFrame

\* scores = await self.db.get_all_scores()
all_scores_query ==
    /\ serial => NoneRunning
    /\ \E board \in get_all_scores : HistQuery(Query("get_all_scores", 0, 0, board))
    /\ QueryFrame

\* top_scorers = await self.db.get_top_scorers_weekly(limit=...)
weekly_query(limit) ==
    /\ serial => NoneRunning
    /\ \E board \in get_top_scorers_weekly(limit) :
           HistQuery(Query("get_top_scorers_weekly", 0, limit, board))
    /\ QueryFrame

\* The tables the queries run on: for each of NumUsers users and NumChapters
\* chapters of two questions no row, or the row of a user who has answered the
\* first question right, or of one who has completed the chapter with two right
\* answers; all users registered, or all but one.
BoardUsers == 1..NumUsers
BoardChapters == 1..NumChapters
BoardRows ==
    {<< >>,
     <<ToRow([current_index |-> 1, score |-> 1, answers |-> <<1>>,
              last_message_id |-> 1, completed |-> FALSE])>>,
     <<ToRow([current_index |-> 1, score |-> 2, answers |-> <<1, 0>>,
              last_message_id |-> 1, completed |-> TRUE])>>}

BoardInit ==
    /\ quizzes = [c \in BoardChapters |-> <<QuizOfLen(2)>>]
    /\ user_progress \in [BoardUsers \X BoardChapters -> BoardRows]
    /\ task = [t \in Tasks |-> Idle]
    /\ serial = TRUE
    /\ hist = << >>
    /\ chat = NoChat
    /\ subjects = << >>
    /\ chapters = << >>
    /\ users \in {BoardUsers} \cup {BoardUsers \ {u} : u \in BoardUsers}
    /\ now = 1
    /\ user_states = << >>
    /\ profile_confirmed = {}

BoardNext ==
    \/ \E u \in BoardUsers : total_score_query(u)
    \/ all_scores_query
    \/ \E limit \in Limits : weekly_query(limit)

\* The queries of the scores, on every table.
BoardSpec == BoardInit /\ [][BoardNext]_vars

\* ------------------------------------------------------------ progress storage
\* The QuizProgress objects saved: any position, score and message id with any
\* answers of up to MaxQuestions questions, completed or not.
Stored ==
    [current_index : 0..MaxQuestions, score : 0..MaxQuestions,
     answers : UNION {[1..n -> Options] : n \in 0..MaxQuestions},
     last_message_id : {NULL, 1}, completed : BOOLEAN]

\* The key saved under, and the keys read: that one and one never saved under.
SavedKey == <<1, 1>>
StoreKeys == {SavedKey, <<1, 2>>}

\* await self.db.save_progress(progress)
store_save(k, progress) ==
    /\ save_progress(k[1], k[2], progress)
    /\ hist' = <<[op |-> "save_progress", user |-> k[1], chapter |-> k[2],
                  progress |-> progress]>>
    /\ UNCHANGED <<quizzes, task, serial, chat, tables>>

\* progress = await self.db.get_progress(user_id, chapter_id)
store_get(k) ==
    /\ hist' = <<[op |-> "get_progress", user |-> k[1], chapter |-> k[2],
                  progress |-> get_progress(k[1], k[2])]>>
    /\ UNCHANGED <<quizzes, user_progress, task, serial, chat, tables>>

StoreInit ==
    /\ quizzes = [c \in {k[2] : k \in StoreKeys} |-> <<QuizOfLen(MaxQuestions)>>]
    /\ user_progress = [k \in StoreKeys |-> << >>]
    /\ task = [t \in Tasks |-> Idle]
    /\ serial = TRUE
    /\ hist = << >>
    /\ NoTables

StoreNext ==
    \/ \E progress \in Stored : store_save(SavedKey, progress)
    \/ \E k \in StoreKeys : store_get(k)

\* Saves and reads of progress records, in any order.
StoreSpec == StoreInit /\ [][StoreNext]_vars

\* ------------------------------------------------------------ users
\* self.admin_id, the user id configured as the admin.
admin_id == 1

\* save_user of User(user_id, name, username): INSERT OR REPLACE of the whole
\* row, profile_confirmed at the default of the dataclass, False.
save_user(u) ==
    /\ users' = users \cup {u}
    /\ profile_confirmed' = profile_confirmed \ {u}

\* confirm_user_profile: UPDATE users SET profile_confirmed = TRUE WHERE user_id = ?
confirm_user_profile(u) ==
    profile_confirmed' = IF u \in users THEN profile_confirmed \cup {u} ELSE profile_confirmed

\* What _start_handler shows after its save: the dashboard to the admin, the
\* channel requirement to a user outside the channel, else get_user and the
\* confirmation request unless profile_confirmed, else the main menu.
start_shows(u, in_channel, confirmed) ==
    IF u = admin_id THEN "admin_dashboard"
    ELSE IF ~in_channel THEN "channel_requirement"
    ELSE IF u \notin confirmed THEN "ask_confirmation"
    ELSE "main_menu"

\* /start
start_handler(u, in_channel) ==
    /\ save_user(u)
    /\ hist' = <<[op |-> "start", user |-> u, in_channel |-> in_channel,
                  outcome |-> start_shows(u, in_channel, profile_confirmed'),
                  pre |-> profile_confirmed]>>
    /\ UNCHANGED <<quizzes, user_progress, task, serial, chat, subjects, chapters, now,
                   user_states>>

\* The callback confirm_profile.
confirm_profile(u) ==
    /\ confirm_user_profile(u)
    /\ hist' = <<[op |-> "confirm_profile", user |-> u, in_channel |-> TRUE,
                  outcome |-> "main_menu", pre |-> profile_confirmed]>>
    /\ UNCHANGED <<quizzes, user_progress, task, serial, chat, subjects, chapters, users, now,
                   user_states>>

UserInit ==
    /\ quizzes = [c \in Chapters |-> << >>]
    /\ user_progress = [k \in Keys |-> << >>]
    /\ task = [t \in Tasks |-> Idle]
    /\ serial = TRUE
    /\ hist = << >>
    /\ NoTables

UserNext ==
    \/ \E u \in BoardUsers, in_channel \in BOOLEAN : start_handler(u, in_channel)
    \/ \E u \in BoardUsers : confirm_profile(u)

\* Users starting the bot and confirming their profiles, one update at a time.
UserSpec == UserInit /\ [][UserNext]_vars

\* delete_user: DELETE FROM users, user_progress (and help_requests)
\* WHERE user_id = ?, in one transaction.
delete_user(u) ==
    /\ users' = users \ {u}
    /\ profile_confirmed' = profile_confirmed \ {u}
    /\ user_progress' = [k \in DOMAIN user_progress |->
                            IF k[1] = u THEN << >> ELSE user_progress[k]]

\* The callback admin_delete_user_<id>, as _callback_handler takes it from
\* whoever sends it.
admin_delete_user(from_user, user_id_to_delete) ==
    /\ delete_user(user_id_to_delete)
    /\ hist' = <<[op |-> "admin_delete_user", user |-> from_user,
                  target |-> user_id_to_delete, pre |-> user_progress]>>
    /\ UNCHANGED <<quizzes, task, serial, chat, subjects, chapters, now, user_states>>

EraseNext == \E from_user, target \in BoardUsers : admin_delete_user(from_user, target)

\* The erase-user callback on every table of the leaderboards.
EraseSpec == BoardInit /\ [][EraseNext]_vars

\* ------------------------------------------------------------ the admin's conversation
\* self.user_states: a dict from user ids to conversation states.  A state is
\* a string ('waiting_subject') or a dict of one entry that matters
\* ({'waiting_chapter': subject_name}); get() of a missing key gives None.
NoState == [type |-> "none", key |-> "", value |-> ""]
StrState(s) == [type |-> "str", key |-> "", value |-> s]
DictState(k, v) == [type |-> "dict", key |-> k, value |-> v]

\* self.user_states.get(user_id)
get_state(u) == IF u \in DOMAIN user_states THEN user_states[u] ELSE NoState

\* self.user_states[user_id] = state
set_state(u, state) ==
    user_states' = [x \in DOMAIN user_states \cup {u} |->
                        IF x = u THEN state ELSE user_states[x]]

\* self.user_states.pop(user_id, None)
pop_state(u) == user_states' = [x \in DOMAIN user_states \ {u} |-> user_states[x]]

\* 'waiting_chapter' in user_state: a key of a dict; of a string, a substring,
\* which no state string of the program has; the default {} has no key.
HasWaitingChapter(state) == state.type = "dict" /\ state.key = "waiting_chapter"

\* The users who write to the bot, and what they type.
Writers == {admin_id, 2}
Texts == SubjectNames \cup ChapterNames

\* Observer of a conversation step: who, what, the state and catalog before.
Said(op, u, text, outcome) ==
    hist' = <<[op |-> op, user |-> u, text |-> text, state |-> get_state(u),
               outcome |-> outcome, pre |-> Catalog]>>

AdminFrame == UNCHANGED <<user_progress, task, serial, chat, users, now, profile_confirmed>>

\* _callback_handler, data == "admin_add_subject_chapter"
admin_add_subject_chapter(u) ==
    /\ set_state(u, StrState("waiting_subject"))
    /\ Said("admin_add_subject_chapter", u, "", "enter_subject")
    /\ UNCHANGED <<quizzes, subjects, chapters>>
    /\ AdminFrame

\* _callback_handler, data == "ask_question"
ask_question(u) ==
    /\ set_state(u, StrState("asking_question"))
    /\ Said("ask_question", u, "", "type_question")
    /\ UNCHANGED <<quizzes, subjects, chapters>>
    /\ AdminFrame

\* _handle_admin_subject
handle_admin_subject(u, text) ==
    /\ set_state(u, DictState("waiting_chapter", text))
    /\ UNCHANGED <<subjects, chapters>>

\* _handle_admin_chapter: the subject is read from the state by its key, which
\* raises on a string state before anything is written; then add_subject,
\* add_chapter under the subject's row, and the state is popped.
handle_admin_chapter(u, text) ==
    IF ~HasWaitingChapter(get_state(u))
    THEN UNCHANGED <<subjects, chapters, user_states>>
    ELSE LET subject_name == get_state(u).value
             found == SubjectId(subject_name) # 0
         IN  /\ Len(chapters) < MaxRows
             /\ subjects' = IF found THEN subjects ELSE Append(subjects, subject_name)
             /\ chapters' = Append(chapters,
                                   [subject_id |-> IF found THEN SubjectId(subject_name)
                                                   ELSE Len(subjects) + 1,
                                    name |-> text])
             /\ pop_state(u)

\* What _text_handler does with a text: the branch its comparisons select.
text_branch(u) ==
    IF u = admin_id /\ get_state(u) = StrState("waiting_subject") THEN "admin_subject"
    ELSE IF u = admin_id /\ get_state(u) = StrState("waiting_chapter") THEN "admin_chapter"
    ELSE IF u = admin_id /\ get_state(u) = StrState("waiting_help_reply") THEN "admin_help_reply"
    ELSE IF get_state(u) = StrState("asking_question") THEN "user_question"
    ELSE "menu"

\* _text_handler
text_handler(u, text) ==
    /\ CASE text_branch(u) = "admin_subject" -> handle_admin_subject(u, text)
         [] text_branch(u) = "admin_chapter" -> handle_admin_chapter(u, text)
         [] text_branch(u) = "admin_help_reply" ->
                \* the request id is read from the state by its key: raises
                UNCHANGED <<subjects, chapters, user_states>>
         [] text_branch(u) = "user_question" ->
                /\ pop_state(u)
                /\ UNCHANGED <<subjects, chapters>>
         [] OTHER -> UNCHANGED <<subjects, chapters, user_states>>
    /\ Said("text_handler", u, text, text_branch(u))
    /\ UNCHANGED quizzes
    /\ AdminFrame

\* _document_handler: the sender, then the file, then the conversation state.
admin_document(u, chapter_name, quiz_data) ==
    IF u = admin_id /\ (~validate_quiz_data(quiz_data) \/ HasWaitingChapter(get_state(u)))
    THEN document_handler(get_state(u).value, chapter_name, quiz_data)
    ELSE /\ CatalogCall("document_handler", "", chapter_name, quiz_data,
                        IF u = admin_id THEN "no_subject" ELSE "ignored")
         /\ UNCHANGED <<quizzes, subjects, chapters>>
         /\ CatalogFrame

\* The catalog is empty, or holds a subject and a chapter added before.
AdminInit ==
    /\ quizzes = [c \in ChapterIds |-> << >>]
    /\ user_progress = [k \in Keys |-> << >>]
    /\ task = [t \in Tasks |-> Idle]
    /\ serial = TRUE
    /\ hist = << >>
    /\ chat = NoChat
    /\ \/ subjects = << >> /\ chapters = << >>
       \/ subjects = <<"s1">> /\ chapters = <<[subject_id |-> 1, name |-> "c1"]>>
    /\ users = Writers
    /\ now = 1
    /\ user_states = << >>
    /\ profile_confirmed = {}

AdminNext ==
    \/ \E u \in Writers : admin_add_subject_chapter(u)
    \/ \E u \in Writers : ask_question(u)
    \/ \E u \in Writers, text \in Texts : text_handler(u, text)
    \/ \E u \in Writers, c \in ChapterNames : \E quiz_data \in Uploads :
           admin_document(u, c, quiz_data)

\* The conversations of the admin and of a user, one message at a time.
AdminSpec == AdminInit /\ [][AdminNext]_vars

\* ------------------------------------------------------------ publishing while reading
\* A save_quiz call between its awaits: what it was called with, the rows its
\* SELECTs have fetched so far.
NoPublish ==
    [pc |-> "idle", subject |-> "", chapter |-> "", questions |-> << >>,
     subject_row |-> 0, chapter_row |-> 0]

\* The lists an upload passes to save_quiz: those of the files that validate.
PublishLists == {Questions(quiz_data) : quiz_data \in {d \in Uploads : validate_quiz_data(d)}}

\* The observer keeps the publishes that returned True and the last read.
IsPublish(h) == h.op = "save_quiz"
Published(chapter_id, questions) ==
    [op |-> "save_quiz", chapter |-> chapter_id, questions |-> questions]
WasRead(chapter_id, found, result) ==
    [op |-> "get_quiz", chapter |-> chapter_id, found |-> found, result |-> result]

PublishFrame ==
    UNCHANGED <<user_progress, serial, chat, subjects, chapters, users, now,
                user_states, profile_confirmed>>

\* save_quiz, to its first await: SELECT id FROM subjects WHERE name = ?;
\* no row returns False.
save_quiz_subject(t, subject_name, chapter_name, questions) ==
    /\ task[t].pc = "idle"
    /\ task' = [task EXCEPT ![t] =
                   IF SubjectId(subject_name) = 0 THEN NoPublish
                   ELSE [pc |-> "subject_row", subject |-> subject_name,
                         chapter |-> chapter_name, questions |-> questions,
                         subject_row |-> SubjectId(subject_name), chapter_row |-> 0]]
    /\ UNCHANGED <<quizzes, hist>>
    /\ PublishFrame

\* SELECT id FROM chapters WHERE subject_id = ? AND name = ?; no row returns False.
save_quiz_chapter(t) ==
    /\ task[t].pc = "subject_row"
    /\ task' = [task EXCEPT ![t] =
                   IF ChapterId(task[t].subject_row, task[t].chapter) = 0 THEN NoPublish
                   ELSE [@ EXCEPT !.pc = "chapter_row",
                                  !.chapter_row = ChapterId(task[t].subject_row,
                                                            task[t].chapter)]]
    /\ UNCHANGED <<quizzes, hist>>
    /\ PublishFrame

\* INSERT OR REPLACE INTO quizzes (chapter_id, questions): the whole list as
\* one row's value, a new row each time.
insert_quiz(chapter_id, questions) ==
    [quizzes EXCEPT ![chapter_id] = Append(@, questions)]

\* The INSERT and its commit, which readers see at once; returns True.
save_quiz_commit(t) ==
    /\ task[t].pc = "chapter_row"
    /\ Len(quizzes[task[t].chapter_row]) < MaxRows
    /\ quizzes' = insert_quiz(task[t].chapter_row, task[t].questions)
    /\ hist' = Append(SelectSeq(hist, IsPublish),
                      Published(task[t].chapter_row, task[t].questions))
    /\ task' = [task EXCEPT ![t] = NoPublish]
    /\ PublishFrame

\* A reader's get_quiz, one SELECT: the list it returns, or None.
read_quiz(chapter_id) ==
    /\ hist' = Append(SelectSeq(hist, IsPublish),
                      IF HasQuiz(chapter_id)
                      THEN WasRead(chapter_id, TRUE, get_quiz(chapter_id))
                      ELSE WasRead(chapter_id, FALSE, << >>))
    /\ UNCHANGED <<quizzes, task>>
    /\ PublishFrame

PublishInit ==
    /\ quizzes = [c \in ChapterIds |-> << >>]
    /\ user_progress = [k \in Keys |-> << >>]
    /\ task = [t \in Tasks |-> NoPublish]
    /\ serial = FALSE
    /\ hist = << >>
    /\ chat = NoChat
    /\ \/ subjects = << >> /\ chapters = << >>
       \/ subjects = <<"s1">> /\ chapters = <<[subject_id |-> 1, name |-> "c1"]>>
    /\ users = {}
    /\ now = 1
    /\ user_states = << >>
    /\ profile_confirmed = {}

PublishNext ==
    \/ \E t \in Tasks, s \in SubjectNames, c \in ChapterNames :
           \E questions \in PublishLists : save_quiz_subject(t, s, c, questions)
    \/ \E t \in Tasks : save_quiz_chapter(t)
    \/ \E t \in Tasks : save_quiz_commit(t)
    \/ \E c \in ChapterIds : read_quiz(c)

\* Publishes in steps, interleaved with each other and with reads.
PublishSpec == PublishInit /\ [][PublishNext]_vars

\* A day passes, between two updates.
Tick ==
    /\ NoneRunning
    /\ now < MaxDay
    /\ now' = now + 1
    /\ UNCHANGED <<quizzes, user_progress, task, serial, hist, chat, subjects, chapters, users,
                   user_states, profile_confirmed>>

\* A user, registered or not, about to complete a chapter on day 1; then the
\* days pass and the weekly leaderboard is asked for.
WeeklyInit ==
    \E total \in 1..MaxQuestions : \E score \in 0..total :
        /\ BeforeCompletion(score, total)
        /\ chat = NoChat
        /\ subjects = << >>
        /\ chapters = << >>
        /\ users \in SUBSET Users
        /\ now = 1
        /\ user_states = << >>
        /\ profile_confirmed = {}

WeeklyNext ==
    \/ \E t \in Tasks : CQ_Save(t)
    \/ Tick
    \/ \E limit \in Limits : weekly_query(limit)

WeeklySpec == WeeklyInit /\ [][WeeklyNext]_vars

\* ------------------------------------------------------------ properties
Row(r) == IF Len(r) > 0 THEN FromRow(r[1]) ELSE QuizProgress
Rows == {FromRow(user_progress[k][1]) : k \in {x \in Keys : Len(user_progress[x]) > 0}}
QuizLen(c) == IF HasQuiz(c) THEN Len(get_quiz(c)) ELSE 0
Calls == {hist[i] : i \in 1..Len(hist)}
AnswerCalls == {h \in Calls : h.op = "handle_answer"}
Returned(h) == h.outcome # "running"
SameTap(a, b) ==
    /\ a.op = "handle_answer" /\ b.op = "handle_answer"
    /\ a.user = b.user /\ a.chapter = b.chapter /\ a.qi = b.qi

\* C1: an answer is accepted only when its questionIndex equals the number of
\* answers already recorded for the (user, chapter); any other index is rejected.
C1_AcceptedOnlyNext ==
    \A h \in AnswerCalls : h.accepted => h.qi = Len(Row(h.pre).answers)

\* C2: between two retakes at most one submission is accepted for a question
\* index: two submitAnswer calls in a row for the same question are never both
\* accepted.
C2_ScoredOnce ==
    (Len(hist) = 2 /\ SameTap(hist[1], hist[2]) /\ Returned(hist[1]) /\ Returned(hist[2]))
    => ~(hist[1].accepted /\ hist[2].accepted)

\* C3: of two concurrent submitAnswer calls for the same (user, chapter,
\* questionIndex), at most one passes the idempotency check: never are both
\* accepted with their writes still to come.
C3_RaceOneAccepted ==
    \A t1, t2 \in Tasks :
        (/\ t1 # t2
         /\ task[t1].pc = "ha_save" /\ task[t2].pc = "ha_save"
         /\ task[t1].user = task[t2].user /\ task[t1].chapter = task[t2].chapter
         /\ task[t1].next = task[t2].next)
        => ~(/\ Len(task[t1].progress.answers) = task[t1].next
             /\ Len(task[t2].progress.answers) = task[t2].next)

\* C4: a submitAnswer rejected as duplicate/stale leaves the persisted Progress
\* record of its (user, chapter) as it was before the call.
C4_RejectedNoMutation ==
    \A h \in AnswerCalls : h.outcome = "stale" => h.post = h.pre

C4_Witness ==
    \E h \in AnswerCalls :
        h.outcome = "stale" /\ Len(h.pre) > 0 /\ Row(h.pre).last_message_id > 0

\* C5: submitAnswer(u, c, 0, x) on a chapter with a question and no recorded
\* answer is accepted and changes the record; the same call made again right
\* after it is rejected as stale and leaves score and currentIndex unchanged.
C5_SubmitTwice ==
    /\ \A h \in AnswerCalls :
           (/\ Returned(h) /\ h.qi = 0 /\ QuizLen(h.chapter) >= 1
            /\ Len(Row(h.pre).answers) = 0)
           => h.accepted /\ h.post # h.pre
    /\ (/\ Len(hist) = 2 /\ SameTap(hist[1], hist[2]) /\ hist[1].opt = hist[2].opt
         /\ hist[1].qi = 0 /\ hist[1].accepted /\ Returned(hist[2]))
        => /\ hist[2].outcome = "stale"
           /\ Row(hist[2].post).score = Row(hist[1].post).score
           /\ Row(hist[2].post).current_index = Row(hist[1].post).current_index

C5_Witness ==
    /\ Len(hist) = 2 /\ SameTap(hist[1], hist[2]) /\ hist[1].opt = hist[2].opt
    /\ hist[1].qi = 0 /\ hist[1].accepted /\ hist[1].outcome = "question"
    /\ hist[2].outcome = "stale"
    /\ Row(hist[2].post).current_index = 1

\* C6: every persisted Progress record has 0 <= score <= currentIndex <= the
\* number of questions of its chapter.
C6_ScoreBound ==
    \A k \in Keys :
        Len(user_progress[k]) > 0 =>
            /\ 0 <= Row(user_progress[k]).score
            /\ Row(user_progress[k]).score <= Row(user_progress[k]).current_index
            /\ Row(user_progress[k]).current_index <= QuizLen(k[2])

\* C7: in every persisted Progress record the length of answers equals
\* currentIndex.
C7_AnswersLenIsIndex ==
    \A r \in Rows : Len(r.answers) = r.current_index

\* C8: currentIndex never decreases from one submitAnswer call to the next.
C8_IndexMonotonic ==
    (Len(hist) = 2 /\ hist[1].op = "handle_answer" /\ hist[2].op = "handle_answer"
     /\ hist[1].user = hist[2].user /\ hist[1].chapter = hist[2].chapter
     /\ Returned(hist[2]))
    => Row(hist[2].post).current_index >= Row(hist[1].post).current_index

\* C9: an accepted submitAnswer(u, c, q, o) appends o to answers, adds one to
\* currentIndex, and adds one to score exactly when o is the correct option, for
\* every question of the chapter (stated of the calls that return without an
\* error of the chat layer).
C9_AcceptedEffect ==
    \A h \in AnswerCalls :
        Returned(h) /\ h.outcome # "error" /\ h.accepted =>
            /\ Row(h.post).answers = Append(Row(h.pre).answers, h.opt)
            /\ Row(h.post).current_index = Row(h.pre).current_index + 1
            /\ Row(h.post).score = Row(h.pre).score
                   + (IF h.opt = get_quiz(h.chapter)[h.qi + 1].correct THEN 1 ELSE 0)

\* C10: no persisted record has an answer for every question of its chapter
\* while completed is false.
C10_CompletedWithLastAnswer ==
    \A k \in Keys :
        (/\ Len(user_progress[k]) > 0 /\ QuizLen(k[2]) >= 1
         /\ Len(Row(user_progress[k]).answers) = QuizLen(k[2]))
        => Row(user_progress[k]).completed

\* C11: in every persisted record of a chapter with at least one question,
\* completed is true exactly when currentIndex equals the number of questions of
\* the chapter.
C11_CompletedIffIndexAtEnd ==
    \A k \in Keys :
        Len(user_progress[k]) > 0 /\ QuizLen(k[2]) >= 1 =>
            (Row(user_progress[k]).completed
                <=> Row(user_progress[k]).current_index = QuizLen(k[2]))

AnswerWritten(h) == Row(h.post).answers # Row(h.pre).answers

PositionWritten(h) ==
    \/ Row(h.post).current_index # Row(h.pre).current_index
    \/ Row(h.post).completed # Row(h.pre).completed

\* C12: a submitAnswer call that fails after its answer was accepted leaves the
\* record either as it was before the call, or with the answer and the position
\* (currentIndex or completed) both written, never the one without the other.
C12_AtomicPersist ==
    \A h \in AnswerCalls :
        h.accepted /\ h.outcome = "error" =>
            \/ h.post = h.pre
            \/ AnswerWritten(h) /\ PositionWritten(h)

\* C13: startOrResume on a record that is not completed shows the question at
\* the persisted currentIndex (the index the shown question is saved under is
\* the index the record had before the call).
C13_ResumeAtIndex ==
    \A h \in Calls :
        h.op = "start_quiz" /\ h.outcome = "question" /\ ~Row(h.pre).completed =>
            Row(h.post).current_index = Row(h.pre).current_index

\* C14: startOrResume on a completed record returns the retake offer and leaves
\* the record as it was, however many times it is called.
C14_CompletedStartNoMutation ==
    \A h \in Calls :
        h.op = "start_quiz" /\ Returned(h) /\ Row(h.pre).completed =>
            h.outcome = "offer_retake" /\ h.post = h.pre

C14_Witness ==
    /\ Len(hist) = 2
    /\ \A i \in 1..2 : hist[i].op = "start_quiz" /\ hist[i].outcome = "offer_retake"
    /\ Row(hist[1].pre).completed /\ Row(hist[1].pre).score >= 1
    /\ hist[2].post = hist[1].pre

\* The number of positions where the submitted option is the correct one.
CorrectCount(answers, quiz) ==
    Cardinality({i \in 1..Len(answers) : i <= Len(quiz) /\ answers[i] = quiz[i].correct})

RunOf(k) == PrevRun[k]

\* C15: once every question of a chapter has been answered in order from a
\* fresh progress, the record is completed and its score is the number of
\* positions where the submitted option is the question's correct one (and on
\* the way there the score is that number for the answers given so far).
C15_InOrderScore ==
    \A k \in Keys :
        NoneRunning /\ RunOf(k) = "fresh" /\ QuizLen(k[2]) >= 1 =>
            /\ Row(user_progress[k]).score
                   = CorrectCount(Row(user_progress[k]).answers, get_quiz(k[2]))
            /\ Len(Row(user_progress[k]).answers) = QuizLen(k[2])
                   => Row(user_progress[k]).completed

C15_Witness ==
    \E k \in Keys :
        /\ NoneRunning /\ RunOf(k) = "fresh" /\ QuizLen(k[2]) >= 2
        /\ Len(Row(user_progress[k]).answers) = QuizLen(k[2])
        /\ Row(user_progress[k]).completed
        /\ Row(user_progress[k]).score >= 1
        /\ Row(user_progress[k]).score < QuizLen(k[2])
        /\ Len(hist) = 2 /\ hist[2].outcome = "completed"

\* C16: the completion report is determined by score and total: its percentage
\* is score/total*100 to the nearest tenth (3/3 gives 100.0, 2/3 gives 66.7) and
\* its band is outstanding from 90 percent, great from 70, good from 50 and
\* encouragement below.
C16_Report ==
    \A h \in Calls :
        h.outcome = "completed" =>
            LET score == Row(h.post).score
                total == QuizLen(h.chapter)
                tenths == h.report.tenths
            IN /\ 2 * tenths * total <= 2000 * score + total
               /\ 2000 * score <= 2 * tenths * total + total
               /\ (score = 3 /\ total = 3) => tenths = 1000
               /\ (score = 2 /\ total = 3) => tenths = 667
               /\ h.report.band = "outstanding" <=> 100 * score >= 90 * total
               /\ h.report.band = "great"
                      <=> (100 * score >= 70 * total /\ 100 * score < 90 * total)
               /\ h.report.band = "good"
                      <=> (100 * score >= 50 * total /\ 100 * score < 70 * total)
               /\ h.report.band = "keep_learning" <=> 100 * score < 50 * total

C16_Witness ==
    \E h \in Calls :
        /\ h.outcome = "completed" /\ QuizLen(h.chapter) = 3 /\ Row(h.post).score = 2
        /\ h.report = [tenths |-> 667, band |-> "good"]

EmptyChapter(c) == HasQuiz(c) /\ Len(get_quiz(c)) = 0

C18_RetakeResets ==
    \A h \in Calls :
        h.op = "retake" /\ Returned(h) /\ QuizLen(h.chapter) >= 1 =>
            /\ h.outcome = "question"
            /\ Row(h.post).current_index = 0
            /\ Row(h.post).score = 0
            /\ Row(h.post).answers = << >>
            /\ Row(h.post).completed = FALSE

C18_Witness ==
    \E h \in Calls :
        /\ h.op = "retake" /\ h.outcome = "question"
        /\ ~Row(h.pre).completed /\ Len(Row(h.pre).answers) >= 1
        /\ Row(h.pre).current_index >= 1 /\ Row(h.pre).score >= 1
        /\ Row(h.post).answers = << >> /\ Row(h.post).current_index = 0

AllCorrect(answers, quiz) ==
    Len(answers) = Len(quiz) /\ \A i \in 1..Len(quiz) : answers[i] = quiz[i].correct

\* C19: after the retake of a completed chapter, answering every question
\* correctly in order gives completed = true and a score equal to the number of
\* questions, whatever the run before the retake was.
C19_RetakeNoLeak ==
    \A k \in Keys :
        (/\ NoneRunning /\ RunOf(k) = "retaken" /\ QuizLen(k[2]) >= 1
         /\ AllCorrect(Row(user_progress[k]).answers, get_quiz(k[2])))
        => /\ Row(user_progress[k]).completed
           /\ Row(user_progress[k]).score = QuizLen(k[2])

C19_Witness ==
    \E k \in Keys :
        /\ NoneRunning /\ RunOf(k) = "retaken" /\ QuizLen(k[2]) >= 2
        /\ AllCorrect(Row(user_progress[k]).answers, get_quiz(k[2]))
        /\ Row(user_progress[k]).completed
        /\ Row(user_progress[k]).score = QuizLen(k[2])

Outstanding(k) ==
    {p \in chat.prompts :
        /\ p.user = k[1] /\ p.chapter = k[2]
        /\ AnswerIsNext(get_progress(p.user, p.chapter), p.qi)}

\* C21: at every moment the chat shows at most one outstanding question message
\* per (user, chapter), under any interleaving of the handlers.
C21_OneOutstandingPrompt == \A k \in Keys : Cardinality(Outstanding(k)) <= 1

\* C22: once a record is completed, its score, its answers and its completed
\* flag change only through a retake: every other call on a completed record
\* leaves the three as they were.
C22_CompletedChangesByRetake ==
    \A h \in Calls :
        Returned(h) /\ h.op # "retake" /\ Row(h.pre).completed =>
            /\ Row(h.post).score = Row(h.pre).score
            /\ Row(h.post).answers = Row(h.pre).answers
            /\ Row(h.post).completed

\* The validation rule as stated: a non-empty list whose every entry has a
\* non-empty prompt, at least two options and a correct index among them.
ValidEntry(e) ==
    /\ e.complete /\ e.question # ""
    /\ e.nopts >= 2
    /\ 0 <= e.correct /\ e.correct < e.nopts
ValidSet(quiz_data) ==
    /\ Len(quiz_data) > 0
    /\ \A i \in 1..Len(quiz_data) : ValidEntry(quiz_data[i])
Uploaded == {h \in Calls : h.op = "document_handler"}
TargetChapter(h) == ChapterId(SubjectId(h.subject), h.chapter)

\* C23: after a valid question list is published for a chapter that already
\* has a published list, the chapter's questions are the list just published.
C23_PublishReplaces ==
    \A h \in Uploaded :
        /\ ValidSet(h.data) /\ h.outcome = "uploaded"
        /\ Len(h.pre.quizzes[TargetChapter(h)]) > 0
        => get_quiz(TargetChapter(h)) = Questions(h.data)

\* C24: a question set with an invalid entry is rejected as a whole: after its
\* upload the catalog is as it was, no question of the set in it.
C24_InvalidSetRejected ==
    \A h \in Uploaded :
        (\E i \in 1..Len(h.data) : ~ValidEntry(h.data[i])) => Catalog = h.pre

\* C25: an uploaded set passes validation exactly when it is a non-empty list
\* of entries with a non-empty prompt, at least two options and a correct index
\* among them.
C25_ValidateIffValidSet ==
    \A h \in Uploaded : (h.outcome # "invalid") <=> ValidSet(h.data)

\* C26: adding a subject whose name exists, or a chapter whose (subject, name)
\* exists, leaves the catalog as it was.
C26_AddIdempotent ==
    \A h \in Calls :
        /\ h.op = "add_subject" /\ (\E i \in 1..Len(h.pre.subjects) : h.pre.subjects[i] = h.subject)
           => Catalog = h.pre
        /\ h.op = "add_chapter"
              /\ (\E i \in 1..Len(h.pre.chapters) :
                      /\ h.pre.chapters[i].name = h.chapter
                      /\ h.pre.subjects[h.pre.chapters[i].subject_id] = h.subject)
           => Catalog = h.pre

Queries(op) == {h \in Calls : h.op = op}

\* The persisted score of the record of (u, c), 0 when there is none, summed
\* over the chapters 1..n.
RECURSIVE ScoreUpTo(_, _)
ScoreUpTo(u, n) ==
    IF n = 0 THEN 0
    ELSE (IF Len(user_progress[<<u, n>>]) > 0 THEN user_progress[<<u, n>>][1].score ELSE 0)
             + ScoreUpTo(u, n - 1)

\* C27: the total score of a user is the sum of the persisted scores of all
\* their progress records, in progress and completed alike, and 0 without any.
C27_TotalScoreIsSum ==
    \A h \in Queries("get_user_total_score") :
        /\ h.result = ScoreUpTo(h.user, NumChapters)
        /\ (\A c \in BoardChapters : Len(user_progress[<<h.user, c>>]) = 0) => h.result = 0

C27_Witness ==
    \E h \in Queries("get_user_total_score") :
        /\ h.result = 3
        /\ \E c \in BoardChapters : /\ Len(user_progress[<<h.user, c>>]) > 0
                                    /\ user_progress[<<h.user, c>>][1].completed = 0

C29_WeeklyHasCompletion ==
    \A h \in Calls : \A q \in Queries("get_top_scorers_weekly") :
        /\ h.op = "handle_answer" /\ h.outcome = "completed"
        /\ h.user \in users /\ Row(h.post).score > 0
        /\ q.at >= h.at /\ q.at - h.at <= WeekDays
        /\ q.limit >= Cardinality(users)
        => \E i \in 1..Len(q.result) :
               /\ q.result[i].user = h.user
               /\ q.result[i].total_score = get_user_total_score(h.user)

\* C30: what get_progress returns for a key is, field by field, the progress
\* last saved under it (index, score, answers, completed, message id), and for
\* a key never saved the defaults: index 0, score 0, no answers, not completed.
C30_ProgressRoundTrip ==
    /\ \A h \in Queries("save_progress") :
           LET got == get_progress(h.user, h.chapter) IN
           /\ got.current_index = h.progress.current_index
           /\ got.score = h.progress.score
           /\ got.answers = h.progress.answers
           /\ got.completed = h.progress.completed
           /\ got.last_message_id = h.progress.last_message_id
    /\ \A h \in Queries("get_progress") :
           (h.user = SavedKey[1] /\ h.chapter = SavedKey[2] => Len(user_progress[SavedKey]) = 0)
           => /\ h.progress.current_index = 0
              /\ h.progress.score = 0
              /\ h.progress.answers = << >>
              /\ h.progress.completed = FALSE

C30_Witness ==
    \E h \in Queries("save_progress") :
        /\ Len(h.progress.answers) = MaxQuestions
        /\ h.progress.completed
        /\ h.progress.last_message_id # NULL
        /\ h.progress.score > 0
        /\ get_progress(h.user, h.chapter) = h.progress

\* a is the beginning of b.
IsPrefix(a, b) == Len(a) <= Len(b) /\ SubSeq(b, 1, Len(a)) = a

\* The step is the save of a retake of key k.
RetakeSaves(k) ==
    \E t \in Tasks : /\ task[t].pc = "rt_save" /\ task'[t].pc # "rt_save"
                     /\ task[t].user = k[1] /\ task[t].chapter = k[2]

\* C33: under any interleaving of the handlers of one (user, chapter), a save
\* that is not the reset of a retake keeps every answer of the record it
\* replaces, and its score contribution.
C33_NoAnswerLost ==
    [][\A k \in DOMAIN user_progress :
           Len(user_progress[k]) > 0 /\ ~RetakeSaves(k)
           => /\ Len(user_progress'[k]) > 0
              /\ IsPrefix(Row(user_progress[k]).answers, Row(user_progress'[k]).answers)
              /\ Row(user_progress[k]).score <= Row(user_progress'[k]).score]_vars

\* C35: in every persisted record, whatever the interleaving of the handlers,
\* score <= number of answers <= number of questions of the chapter.
C35_ScoreAnswersBounded ==
    \A k \in DOMAIN user_progress :
        Len(user_progress[k]) > 0
        => /\ Row(user_progress[k]).score <= Len(Row(user_progress[k]).answers)
           /\ Len(Row(user_progress[k]).answers) <= QuizLen(k[2])

\* A record at both bounds, a second handler still running.
C35_Witness ==
    \E k \in DOMAIN user_progress :
        /\ Len(user_progress[k]) > 0
        /\ Row(user_progress[k]).score = MaxQuestions
        /\ Len(Row(user_progress[k]).answers) = MaxQuestions
        /\ QuizLen(k[2]) = MaxQuestions
        /\ ~NoneRunning

\* C34: after startOrResume on a record in progress has shown a question, the
\* answer to the question shown is accepted (and so, answer by answer, the
\* chapter is completed).
C34_ShownAnswerAccepted ==
    Len(hist) = 2 =>
        LET resume == hist[1]
            answer == hist[2]
        IN /\ resume.op = "start_quiz" /\ resume.outcome = "question"
           /\ Len(resume.pre) > 0 /\ ~Row(resume.pre).completed
           /\ answer.op = "handle_answer"
           /\ answer.user = resume.user /\ answer.chapter = resume.chapter
           /\ answer.qi = Row(resume.post).current_index
           => answer.accepted

\* C38: a step of a handler of one (user, chapter) changes no record of another
\* key, and no handler step changes the subjects, the chapters or the
\* question lists.
C38_OtherKeysUnchanged ==
    [][/\ \A k \in DOMAIN user_progress :
              user_progress'[k] # user_progress[k]
              => \E t \in Tasks : /\ task'[t] # task[t]
                                 /\ task[t].user = k[1] /\ task[t].chapter = k[2]
       /\ quizzes' = quizzes /\ subjects' = subjects /\ chapters' = chapters]_vars

\* One key completed, another in progress with an answer, a handler of the
\* first running.
C38_Witness ==
    \E k1, k2 \in DOMAIN user_progress :
        /\ Len(user_progress[k1]) > 0 /\ Row(user_progress[k1]).completed
        /\ Len(user_progress[k2]) > 0 /\ ~Row(user_progress[k2]).completed
        /\ Len(Row(user_progress[k2]).answers) > 0
        /\ \E t \in Tasks : task[t].pc # "idle" /\ <<task[t].user, task[t].chapter>> = k1

\* C31: a progress record is removed only by the erase-user action of the
\* admin: the callback sent by another user removes nothing, and sent by the
\* admin it removes the records of the named user and no other.
C31_EraseOnlyByAdmin ==
    \A h \in Queries("admin_delete_user") :
        /\ h.user # admin_id => user_progress = h.pre
        /\ h.user = admin_id
           => \A k \in DOMAIN user_progress :
                  user_progress[k] = IF k[1] = h.target THEN << >> ELSE h.pre[k]

\* C37: a /start of a user whose profile is confirmed leaves it confirmed and
\* does not ask for the confirmation again.
C37_StartKeepsConfirmed ==
    \A h \in Queries("start") :
        h.user \in h.pre
        => h.user \in profile_confirmed /\ h.outcome # "ask_confirmation"

\* C36: after the admin has chosen 'Add Subject/Chapter' and sent a subject
\* name, the chapter name sent next adds that subject and that chapter to the
\* catalog and clears the admin's conversation state.
C36_AddConversationReachesGoal ==
    \A i \in DOMAIN hist :
        (/\ hist[i].op = "text_handler"
         /\ hist[i].user = admin_id
         /\ HasWaitingChapter(hist[i].state))
        => /\ SubjectId(hist[i].state.value) # 0
           /\ ChapterId(SubjectId(hist[i].state.value), hist[i].text) # 0
           /\ admin_id \notin DOMAIN user_states

\* C32: a list read for a chapter is, in full, one of the lists passed to a
\* publish of that chapter that succeeded, whatever publishes are under way.
C32_ReadIsPublishedList ==
    \A i \in DOMAIN hist :
        hist[i].op = "get_quiz" /\ hist[i].found =>
            \E j \in DOMAIN hist :
                /\ hist[j].op = "save_quiz"
                /\ hist[j].chapter = hist[i].chapter
                /\ hist[j].questions = hist[i].result

\* A chapter with two different published lists is read while a third publish
\* for it has fetched its rows and not yet inserted.
C32_Witness ==
    /\ \E i \in DOMAIN hist : hist[i].op = "get_quiz" /\ hist[i].found
    /\ \E i, j \in DOMAIN hist :
           /\ hist[i].op = "save_quiz" /\ hist[j].op = "save_quiz"
           /\ hist[i].chapter = hist[j].chapter
           /\ hist[i].questions # hist[j].questions
    /\ \E t \in Tasks : task[t].pc = "chapter_row"
====
